---- MODULE Spec2Model ----
(***************************************************************************)
(* Verification model of risc0-solana: the verifier router (registry,      *)
(* two-step ownership, emergency stop), the Groth16 verification pipeline  *)
(* (public inputs, scalar range check, accumulation and pairing check) and *)
(* its pure helpers.                                                       *)
(*                                                                         *)
(* Three specifications share the variables:                               *)
(*   SpecRouter  - the on-chain router program, one action per instruction *)
(*   SpecVerify  - one verification call, stepped primitive by primitive   *)
(*   SpecPure    - the pure functions applied to bounded inputs            *)
(***************************************************************************)
EXTENDS Integers, Sequences, FiniteSets, TLC

VARIABLES
    owner,          \* Ownership.owner: Option<Pubkey>
    pending_owner,  \* Ownership.pending_owner: Option<Pubkey>
    verifier_count, \* VerifierRouter.verifier_count: u32
    entries,        \* the VerifierEntry PDA accounts, by selector seed
    programData,    \* the loader's ProgramData account of every program
    stopped,        \* history: selectors an emergency stop succeeded on
    registered,     \* history: selectors add_verifier ever accepted
    lastCall,       \* the last router instruction and what it returned
    run,            \* the verification call in progress (SpecVerify)
    pure,           \* the last pure-function application (SpecPure)
    storage         \* hello_example: the data of its public-inputs account

vars == << owner, pending_owner, verifier_count, entries, programData,
           stopped, registered, lastCall, run, pure, storage >>

routerVars == << owner, pending_owner, verifier_count, entries, programData,
                 stopped, registered, lastCall >>

-----------------------------------------------------------------------------
(* Bounds of the model *)

\* verifier_count is a u32; the model scales u32::MAX down to this value so
\* that the counter's overflow is reachable.
MaxCount == 2

-----------------------------------------------------------------------------
(* Router: keys, programs, accounts *)

None == "None"

\* Pubkey::default(), the zero address
ZeroKey == "zero"

Keys == {"alice", "bob", "carol"}

RouterKey == "router"

\* Deployed upgradeable programs a caller can pass as verifier_program.
Programs == {"test_bad_verifier", "groth_16_verifier", "foreign"}

\* ProgramData.upgrade_authority_address as deployed: the router owns the two
\* verifiers; "foreign" is a program whose authority was never handed over.
DeployedAuthority(p) == IF p = "foreign" THEN "deployer" ELSE RouterKey

\* The programs that can stand in a VerifierEntry, hence the ones worth
\* passing to verify and to the emergency stops.
Verifiers == {p \in Programs : DeployedAuthority(p) = RouterKey}

NoEntry == [selector |-> 0, verifier |-> None]

Selectors == 0 .. MaxCount


\* Proof { pi_a: [u8; 64], pi_b: [u8; 128], pi_c: [u8; 64] }: each component
\* is a constant-filled array, named by its fill byte.
ExploitProof == [pi_a |-> 202, pi_b |-> 254, pi_c |-> 202]

ProofSet == {ExploitProof,
             [ExploitProof EXCEPT !.pi_a = 0],
             [ExploitProof EXCEPT !.pi_b = 0],
             [ExploitProof EXCEPT !.pi_c = 0]}

\* The proofs presented to emergency_stop_with_proof: one test_bad_verifier
\* accepts and one it rejects.
StopProofs == {ExploitProof, [ExploitProof EXCEPT !.pi_a = 0]}

\* Verification requests (proof, image_id, journal_digest); a [u8; 32] is
\* named by its fill byte, 0 being the null array.
Requests ==
    {<< pr, 0, 0 >> : pr \in ProofSet}
        \cup {<< ExploitProof, 1, 0 >>, << ExploitProof, 0, 1 >>}

-----------------------------------------------------------------------------
(* solana-ownable: Ownership *)

\* Ownership::assert_owner
assert_owner(authority) ==
    IF owner = authority THEN "Ok" ELSE "NotOwner"

\* assert_pending_owner that lets any signer pass while a transfer is pending
assert_pending_owner_AnySigner(authority) ==
    IF pending_owner = None THEN "NoPendingTransfer" ELSE "Ok"

\* Ownership::assert_pending_owner
assert_pending_owner(authority) ==
    IF pending_owner = None THEN "NoPendingTransfer"
    ELSE IF authority = pending_owner THEN "Ok"
    ELSE "NotPendingOwner"

\* transfer_ownership without the CannotTransferToSelf requirement
transfer_ownership_result_SelfAllowed(new_owner, authority) ==
    IF assert_owner(authority) # "Ok" THEN assert_owner(authority)
    ELSE IF new_owner = ZeroKey THEN "InvalidAddress"
    ELSE "Ok"

\* Ownership::transfer_ownership, its result
transfer_ownership_result(new_owner, authority) ==
    IF assert_owner(authority) # "Ok" THEN assert_owner(authority)
    ELSE IF new_owner = authority THEN "CannotTransferToSelf"
    ELSE IF new_owner = ZeroKey THEN "InvalidAddress"
    ELSE "Ok"

\* cancel_transfer that only the owner passes
cancel_transfer_result_OwnerOnly(authority) ==
    IF pending_owner = None THEN "NoPendingTransfer"
    ELSE IF assert_owner(authority) = "Ok" THEN "Ok"
    ELSE "NotOwnerOrPendingOwner"

\* Ownership::cancel_transfer, its result
cancel_transfer_result(authority) ==
    IF pending_owner = None THEN "NoPendingTransfer"
    ELSE IF assert_owner(authority) = "Ok" THEN "Ok"
    ELSE IF assert_pending_owner(authority) = "Ok" THEN "Ok"
    ELSE "NotOwnerOrPendingOwner"

\* What the model keeps of an instruction: who signed it, its selector, the
\* outcome of its account validation, of its cross-program call (None when
\* it made none) and the result returned to the caller.
Call(op, signer, selector, acc, cpi, result) ==
    [op |-> op, signer |-> signer, selector |-> selector, acc |-> acc,
     cpi |-> cpi, result |-> result]

\* VerifierRouter::transfer_ownership (ownable-macro)
TransferOwnership(authority, new_owner) ==
    LET res == transfer_ownership_result(new_owner, authority) IN
    /\ lastCall' = [op |-> "transfer_ownership", signer |-> authority,
                    selector |-> 0, acc |-> "Ok", cpi |-> None,
                    result |-> res, new_owner |-> new_owner]
    /\ pending_owner' = IF res = "Ok" THEN new_owner ELSE pending_owner
    /\ UNCHANGED << owner, verifier_count, entries, programData, stopped,
                    registered, run, pure, storage >>

\* VerifierRouter::accept_ownership (ownable-macro)
AcceptOwnership(authority) ==
    LET res == assert_pending_owner(authority) IN
    /\ lastCall' = Call("accept_ownership", authority, 0, "Ok", None, res)
    /\ owner' = IF res = "Ok" THEN authority ELSE owner
    /\ pending_owner' = IF res = "Ok" THEN None ELSE pending_owner
    /\ UNCHANGED << verifier_count, entries, programData, stopped,
                    registered, run, pure, storage >>

\* renounce_ownership that leaves a pending transfer in place
RenounceOwnership_KeepsPending(authority) ==
    LET res == assert_owner(authority) IN
    /\ lastCall' = Call("renounce_ownership", authority, 0, "Ok", None, res)
    /\ owner' = IF res = "Ok" THEN None ELSE owner
    /\ UNCHANGED << pending_owner, verifier_count, entries, programData,
                    stopped, registered, run, pure, storage >>

\* VerifierRouter::renounce_ownership (ownable-macro)
RenounceOwnership(authority) ==
    LET res == assert_owner(authority) IN
    /\ lastCall' = Call("renounce_ownership", authority, 0, "Ok", None, res)
    /\ owner' = IF res = "Ok" THEN None ELSE owner
    /\ pending_owner' = IF res = "Ok" THEN None ELSE pending_owner
    /\ UNCHANGED << verifier_count, entries, programData, stopped,
                    registered, run, pure, storage >>

\* VerifierRouter::cancel_transfer (ownable-macro)
CancelTransfer(authority) ==
    LET res == cancel_transfer_result(authority) IN
    /\ lastCall' = Call("cancel_transfer", authority, 0, "Ok", None, res)
    /\ pending_owner' = IF res = "Ok" THEN None ELSE pending_owner
    /\ UNCHANGED << owner, verifier_count, entries, programData, stopped,
                    registered, run, pure, storage >>

-----------------------------------------------------------------------------
(* Verifier programs reached by cross-program invocation *)

\* test_bad_verifier::verify: accepts only the one magic proof, for a null
\* image id and a null journal digest.
test_bad_verify(proof, image_id, journal_digest) ==
    IF image_id # 0 THEN "VerificationError"
    ELSE IF journal_digest # 0 THEN "VerificationError"
    ELSE IF proof.pi_a # 202 THEN "VerificationError"
    ELSE IF proof.pi_b # 254 THEN "VerificationError"
    ELSE IF proof.pi_c # 202 THEN "VerificationError"
    ELSE "Ok"

\* What groth_16_verifier::verify can answer a call with; which one it is
\* depends on the pairing check (SpecVerify), here an input of the call.
Groth16Answers == {"Ok", "VerificationError"}

\* The answers the call's environment has to supply for `program`
Answers(program) ==
    IF program = "groth_16_verifier" THEN Groth16Answers
    ELSE {"VerificationError"}

\* groth_16_verifier::cpi::verify(CpiContext::new(verifier_program, ..), ..):
\* the program at the address runs; a program whose ProgramData was closed
\* cannot be invoked.
cpi_verify(program, proof, image_id, journal_digest, groth16) ==
    IF programData[program].closed THEN "ProgramClosed"
    ELSE IF program = "test_bad_verifier"
         THEN test_bad_verify(proof, image_id, journal_digest)
    ELSE groth16

-----------------------------------------------------------------------------
(* verifier_router: registry *)

\* u32 `router.verifier_count + 1` in the AddVerifier constraint: at the
\* maximum it wraps to 0 in a build without overflow checks.
count_plus_one == IF verifier_count = MaxCount THEN 0 ELSE verifier_count + 1

\* AddVerifierAccounts without the `selector == verifier_count + 1`
\* constraint: any selector whose entry account is free is taken.
AddVerifierAccounts_AnyFreeSelector(selector, program, overflowChecks) ==
    IF entries[selector] # NoEntry THEN "AccountAlreadyInUse"
    ELSE IF programData[program].closed THEN "AccountNotInitialized"
    ELSE IF programData[program].upgrade_authority # RouterKey
         THEN "VerifierInvalidAuthority"
    ELSE "Ok"

\* #[derive(Accounts)] AddVerifier: the constraints checked, in field order,
\* before the handler runs. `overflowChecks` is the build's setting: with it
\* the constraint's `verifier_count + 1` panics at the maximum.
AddVerifierAccounts(selector, program, overflowChecks) ==
    IF entries[selector] # NoEntry THEN "AccountAlreadyInUse"
    ELSE IF overflowChecks /\ verifier_count = MaxCount THEN "Panic"
    ELSE IF selector # count_plus_one THEN "SelectorInvalid"
    ELSE IF programData[program].closed THEN "AccountNotInitialized"
    ELSE IF programData[program].upgrade_authority # RouterKey
         THEN "VerifierInvalidAuthority"
    ELSE "Ok"

\* router::add_verifier, its result once the accounts validated
add_verifier_result(authority) ==
    IF assert_owner(authority) # "Ok" THEN assert_owner(authority)
    ELSE IF verifier_count = MaxCount THEN "Overflow"
    ELSE "Ok"

\* verifier_router::add_verifier
AddVerifier(authority, selector, program, overflowChecks) ==
    LET acc == AddVerifierAccounts(selector, program, overflowChecks)
        res == IF acc # "Ok" THEN acc ELSE add_verifier_result(authority)
    IN
    /\ lastCall' = Call("add_verifier", authority, selector, acc, None, res)
    /\ IF res = "Ok"
       THEN /\ entries' = [entries EXCEPT ![selector] =
                              [selector |-> selector, verifier |-> program]]
            /\ verifier_count' = verifier_count + 1
            /\ registered' = registered \cup {selector}
       ELSE UNCHANGED << entries, verifier_count, registered >>
    /\ UNCHANGED << owner, pending_owner, programData, stopped, run, pure, storage >>

\* VerifyAccounts taking the entry account unchecked: a selector without an
\* entry is not refused.
VerifyAccounts_NoEntryCheck(selector, program) ==
    IF entries[selector] # NoEntry /\ program # entries[selector].verifier
    THEN "InvalidVerifier" ELSE "Ok"

\* VerifyAccounts without `address = verifier_entry.verifier`: any program
\* handed in is dispatched to.
VerifyAccounts_AnyProgram(selector, program) ==
    IF entries[selector] = NoEntry THEN "AccountNotInitialized"
    ELSE IF entries[selector].selector # selector THEN "ConstraintRaw"
    ELSE "Ok"

\* #[derive(Accounts)] Verify
VerifyAccounts(selector, program) ==
    IF entries[selector] = NoEntry THEN "AccountNotInitialized"
    ELSE IF entries[selector].selector # selector THEN "ConstraintRaw"
    ELSE IF program # entries[selector].verifier THEN "InvalidVerifier"
    ELSE "Ok"

\* verifier_router::verify -> router::verify
Verify(selector, program, proof, image_id, journal_digest, groth16) ==
    LET acc == VerifyAccounts(selector, program)
        cpi == cpi_verify(program, proof, image_id, journal_digest, groth16)
    IN
    /\ lastCall' =
          IF acc # "Ok"
          THEN [op |-> "verify", signer |-> None, selector |-> selector,
                acc |-> acc, cpi |-> None, result |-> acc,
                program |-> program, request |-> << >>]
          ELSE [op |-> "verify", signer |-> None, selector |-> selector,
                acc |-> acc, cpi |-> cpi, result |-> cpi,
                program |-> program,
                request |-> << proof, image_id, journal_digest >>]
    /\ UNCHANGED << owner, pending_owner, verifier_count, entries,
                    programData, stopped, registered, run, pure, storage >>

-----------------------------------------------------------------------------
(* verifier_router: emergency stop *)

\* #[derive(Accounts)] EmergencyStop
EmergencyStopAccounts(selector, program) ==
    IF entries[selector] = NoEntry THEN "AccountNotInitialized"
    ELSE IF entries[selector].selector # selector THEN "ConstraintRaw"
    ELSE IF entries[selector].verifier # program THEN "ConstraintRaw"
    ELSE IF programData[program].closed THEN "AccountNotInitialized"
    ELSE "Ok"

\* estop::close_verifier: the loader's close_any, signed by the router PDA
close_verifier(program) ==
    IF programData[program].upgrade_authority = RouterKey
    THEN "Ok" ELSE "IncorrectAuthority"

\* The accounts after a stop that returned Ok: the loader closed the
\* ProgramData account, and `close = authority` closed the entry.
Stop(selector, program) ==
    /\ entries' = [entries EXCEPT ![selector] = NoEntry]
    /\ programData' = [programData EXCEPT ![program].closed = TRUE]
    /\ stopped' = stopped \cup {selector}

\* emergency_stop_by_owner without its assert_owner
emergency_stop_by_owner_result_Unchecked(authority, program) ==
    close_verifier(program)

\* estop::emergency_stop_by_owner, its result once the accounts validated
emergency_stop_by_owner_result(authority, program) ==
    IF assert_owner(authority) # "Ok" THEN assert_owner(authority)
    ELSE close_verifier(program)

\* verifier_router::emergency_stop
EmergencyStop(authority, selector, program) ==
    LET acc == EmergencyStopAccounts(selector, program)
        res == IF acc # "Ok" THEN acc
               ELSE emergency_stop_by_owner_result(authority, program)
    IN
    /\ lastCall' = Call("emergency_stop", authority, selector, acc, None, res)
    /\ IF res = "Ok" THEN Stop(selector, program)
       ELSE UNCHANGED << entries, programData, stopped >>
    /\ UNCHANGED << owner, pending_owner, verifier_count, registered, run,
                    pure, storage >>

\* estop::emergency_stop_with_proof, its result once the accounts validated.
\* `let _ = groth_16_verifier::cpi::verify(..)` drops the verifier's answer.
\* When the verifier fails, the runtime either ends the transaction there
\* with the verifier's error (cpiAborts, the on-chain syscall) or hands the
\* error back to the caller (the native test runtime), which drops it.
emergency_stop_with_proof_result(program, cpi, cpiAborts) ==
    IF cpi # "Ok" /\ cpiAborts THEN cpi
    ELSE close_verifier(program)

\* verifier_router::emergency_stop_with_proof
EmergencyStopWithProof(authority, selector, program, proof, groth16, cpiAborts) ==
    LET acc == EmergencyStopAccounts(selector, program)
        cpi == cpi_verify(program, proof, 0, 0, groth16)
        res == IF acc # "Ok" THEN acc
               ELSE emergency_stop_with_proof_result(program, cpi, cpiAborts)
    IN
    /\ lastCall' = Call("emergency_stop_with_proof", authority, selector, acc,
                        IF acc = "Ok" THEN cpi ELSE None, res)
    /\ IF res = "Ok" THEN Stop(selector, program)
       ELSE UNCHANGED << entries, programData, stopped >>
    /\ UNCHANGED << owner, pending_owner, verifier_count, registered, run,
                    pure, storage >>

\* What the runtime may do with the verifier's answer in
\* emergency_stop_with_proof: only a failed call can end the transaction
CpiAborts(program, proof, groth16) ==
    IF cpi_verify(program, proof, 0, 0, groth16) = "Ok" THEN {FALSE}
    ELSE BOOLEAN

\* The overflow-check settings of the build that matter in the current state
Builds == IF verifier_count = MaxCount THEN BOOLEAN ELSE {FALSE}

InitRouter ==
    /\ owner = "alice"
    /\ pending_owner = None
    /\ verifier_count = 0
    /\ entries = [s \in Selectors |-> NoEntry]
    /\ programData = [p \in Programs |->
                        [closed |-> FALSE,
                         upgrade_authority |-> DeployedAuthority(p)]]
    /\ stopped = {}
    /\ registered = {}
    /\ lastCall = Call("initialize", "alice", 0, "Ok", None, "Ok")

NextRouter ==
    \/ \E a \in Keys, k \in Keys \cup {ZeroKey} : TransferOwnership(a, k)
    \/ \E a \in Keys : AcceptOwnership(a)
    \/ \E a \in Keys : RenounceOwnership(a)
    \/ \E a \in Keys : CancelTransfer(a)
    \/ \E a \in Keys, s \in Selectors, p \in Programs :
          \E oc \in Builds : AddVerifier(a, s, p, oc)
    \/ \E s \in Selectors, p \in Verifiers, rq \in Requests :
          \E g \in Answers(p) : Verify(s, p, rq[1], rq[2], rq[3], g)
    \/ \E a \in Keys, s \in Selectors, p \in Verifiers :
          EmergencyStop(a, s, p)
    \/ \E a \in Keys, s \in Selectors, p \in Verifiers, pr \in StopProofs :
          \E g \in Answers(p) : \E ab \in CpiAborts(p, pr, g) :
              EmergencyStopWithProof(a, s, p, pr, g, ab)

\* ---------------------------------------------------------------------------
\* Byte arrays and the pure functions of the verifier
\* ---------------------------------------------------------------------------

\* The indices of a [u8; 32]
ByteIndex == 1 .. 32

\* The values of a u8
Byte == 0 .. 255

\* [0u8; 32]
Zero32 == [k \in ByteIndex |-> 0]

\* [0xFF; 32]
Max32 == [k \in ByteIndex |-> 255]

\* BASE_FIELD_MODULUS_Q, the BN254 base field modulus, big-endian
BASE_FIELD_MODULUS_Q ==
    << 48, 100, 78, 114, 225, 49, 160, 41,
       184, 80, 69, 182, 129, 129, 88, 93,
       151, 129, 106, 145, 104, 113, 202, 141,
       60, 32, 140, 22, 216, 124, 253, 71 >>

\* ALLOWED_CONTROL_ROOT
ALLOWED_CONTROL_ROOT ==
    << 140, 218, 217, 36, 38, 100, 190, 49,
       18, 171, 163, 119, 197, 66, 90, 77,
       247, 53, 235, 28, 105, 102, 71, 43,
       86, 29, 40, 85, 147, 44, 4, 105 >>

\* BN254_IDENTITY_CONTROL_ID
BN254_IDENTITY_CONTROL_ID ==
    << 192, 122, 101, 20, 92, 60, 180, 139,
       97, 1, 150, 46, 166, 7, 164, 221,
       147, 199, 83, 187, 38, 151, 92, 180,
       127, 235, 0, 211, 102, 110, 68, 4 >>

\* Vec::reverse / iter().rev()
Reverse(s) == [k \in 1 .. Len(s) |-> s[Len(s) + 1 - k]]

\* to_fixed_array: the input right-aligned in a zeroed [u8; 32]
\* (the assert on the length holds for every caller: 16 or 32 bytes)
to_fixed_array(input) ==
    LET start_index == 32 - Len(input)
    IN [k \in ByteIndex |-> IF k <= start_index THEN 0
                            ELSE input[k - start_index]]

\* split_digest_bytes that returns one half of the digest twice
split_digest_bytes_OneHalf(d) ==
    LET big_endian == Reverse(d)
        middle == Len(big_endian) \div 2
        a == SubSeq(big_endian, middle + 1, Len(big_endian))
    IN << to_fixed_array(a), to_fixed_array(a) >>

\* split_digest_bytes with the two halves in the other order
split_digest_bytes_Swapped(d) ==
    LET big_endian == Reverse(d)
        middle == Len(big_endian) \div 2
        b == SubSeq(big_endian, 1, middle)
        a == SubSeq(big_endian, middle + 1, Len(big_endian))
    IN << to_fixed_array(b), to_fixed_array(a) >>

\* split_digest_bytes: the digest reversed, cut in the middle; the pair is
\* (second half, first half) of the reversed bytes, each as a [u8; 32]
split_digest_bytes(d) ==
    LET big_endian == Reverse(d)
        middle == Len(big_endian) \div 2
        b == SubSeq(big_endian, 1, middle)
        a == SubSeq(big_endian, middle + 1, Len(big_endian))
    IN << to_fixed_array(a), to_fixed_array(b) >>

\* A hex string as the sequence of its digits' values
hex_encode(bytes) ==
    [k \in 1 .. 2 * Len(bytes) |->
        IF k % 2 = 1 THEN bytes[(k + 1) \div 2] \div 16
        ELSE bytes[k \div 2] % 16]

\* digest_from_hex: hex::decode, two digits a byte
digest_from_hex(hex_str) ==
    [k \in 1 .. Len(hex_str) \div 2 |->
        16 * hex_str[2 * k - 1] + hex_str[2 * k]]

\* The body shared by both public_inputs: [a0, a1, c0, c1, id_bn254_fr].
\* Every path returns Ok; the claim digest is not inspected.
public_inputs_of(claim_digest, allowed_control_root, bn254_identity_control_id) ==
    LET a == split_digest_bytes(allowed_control_root)
        c == split_digest_bytes(claim_digest)
        id_bn254_fr == to_fixed_array(Reverse(bn254_identity_control_id))
    IN [status |-> "Ok",
        inputs |-> << a[1], a[2], c[1], c[2], id_bn254_fr >>]

\* risc0-solana public_inputs(claim_digest, allowed_control_root: &str,
\* bn254_identity_control_id: &str)
public_inputs(claim_digest, allowed_control_root, bn254_identity_control_id) ==
    public_inputs_of(claim_digest, digest_from_hex(allowed_control_root),
                     digest_from_hex(bn254_identity_control_id))

\* groth_16_verifier public_inputs(claim_digest)
groth_16_public_inputs(claim_digest) ==
    public_inputs_of(claim_digest, ALLOWED_CONTROL_ROOT,
                     BN254_IDENTITY_CONTROL_ID)

\* The loop of is_scalar_valid from byte k on: the first byte that differs
\* from q's decides; no difference means scalar == q
RECURSIVE is_scalar_valid_from(_, _)
is_scalar_valid_from(scalar, k) ==
    IF k > 32 THEN FALSE
    ELSE IF scalar[k] < BASE_FIELD_MODULUS_Q[k] THEN TRUE
    ELSE IF scalar[k] > BASE_FIELD_MODULUS_Q[k] THEN FALSE
    ELSE is_scalar_valid_from(scalar, k + 1)

\* is_scalar_valid that lets scalar == q pass
is_scalar_valid_AcceptsQ(scalar) ==
    scalar = BASE_FIELD_MODULUS_Q \/ is_scalar_valid_from(scalar, 1)

\* is_scalar_valid
is_scalar_valid(scalar) == is_scalar_valid_from(scalar, 1)

\* q - 1 and q + 1 (the last byte of q is 0x47: no carry, no borrow)
QMinusOne == [BASE_FIELD_MODULUS_Q EXCEPT ![32] = @ - 1]
QPlusOne == [BASE_FIELD_MODULUS_Q EXCEPT ![32] = @ + 1]

\* The scalars is_scalar_valid is applied to: 0, q and 2^256 - 1, each with
\* one byte one lower, unchanged or one higher
ScalarCases ==
    {[b EXCEPT ![k] = @ + d] :
        << b, k, d >> \in
            {t \in {Zero32, BASE_FIELD_MODULUS_Q, Max32} \X ByteIndex
                       \X {-1, 0, 1} : t[1][t[2]] + t[3] \in Byte}}

\* The digests public_inputs is applied to: the null digest, the digests
\* with a single non-zero byte, and two digests with every byte set
Digests ==
    {Zero32, Max32, ALLOWED_CONTROL_ROOT}
        \cup {[Zero32 EXCEPT ![k] = 1] : k \in ByteIndex}

\* The control roots and identity control ids a caller passes
ControlRoots == {ALLOWED_CONTROL_ROOT, Zero32}
ControlIds == {BN254_IDENTITY_CONTROL_ID, Max32}

\* OUTPUT_TAG, the SHA-256 of "risc0.Output"
OUTPUT_TAG ==
    << 119, 234, 254, 179, 102, 167, 139, 71,
       116, 125, 224, 215, 187, 23, 98, 132,
       8, 95, 245, 86, 72, 135, 0, 154,
       91, 230, 61, 163, 45, 53, 89, 212 >>

\* SYSTEM_STATE_ZERO_DIGEST
SYSTEM_STATE_ZERO_DIGEST ==
    << 163, 172, 194, 113, 23, 65, 137, 150,
       52, 11, 132, 229, 169, 15, 62, 244,
       196, 157, 34, 199, 158, 68, 170, 216,
       34, 236, 156, 49, 62, 30, 184, 226 >>

\* RECEIPT_CLAIM_TAG, the SHA-256 of "risc0.ReceiptClaim"
RECEIPT_CLAIM_TAG ==
    << 203, 31, 239, 205, 31, 45, 154, 100,
       151, 92, 187, 191, 110, 22, 30, 41,
       20, 67, 75, 12, 187, 153, 96, 184,
       77, 245, 215, 23, 232, 107, 72, 175 >>

\* [a, b, ..].concat()
RECURSIVE Concat(_)
Concat(slices) ==
    IF slices = << >> THEN << >> ELSE Head(slices) \o Concat(Tail(slices))

\* hashv(vals).to_bytes(): SHA-256 of the slices one after the other. The
\* hash is kept symbolic: byte k of the digest of a preimage, so that two
\* digests are equal exactly when their preimages are.
hashv(vals) ==
    [k \in ByteIndex |-> [sha256 |-> Concat(vals), byte |-> k]]

\* (x << 8).to_be_bytes() of a u16
u16_shl8_to_be_bytes(x) ==
    LET v == (x * 256) % 65536 IN << v \div 256, v % 256 >>

\* (x << 24).to_be_bytes() of a u32: the low byte of x comes first
u32_shl24_to_be_bytes(x) == << x % 256, 0, 0, 0 >>

\* compute_output_digest with the length field in little-endian order
compute_output_digest_LittleEndian(journal_digest, assumptions_digest) ==
    hashv(<< OUTPUT_TAG, journal_digest, assumptions_digest,
             Reverse(u16_shl8_to_be_bytes(2)) >>)

\* compute_output_digest
compute_output_digest(journal_digest, assumptions_digest) ==
    LET down_len == u16_shl8_to_be_bytes(2)
    IN hashv(<< OUTPUT_TAG, journal_digest, assumptions_digest, down_len >>)

\* compute_output_digest_ok
compute_output_digest_ok(journal_digest) ==
    compute_output_digest(journal_digest, Zero32)

\* compute_receipt_claim_digest
compute_receipt_claim_digest(input_digest, pre_state_digest, post_state_digest, output_digest, system_exit_code, user_exit_code) ==
    LET system_bytes == u32_shl24_to_be_bytes(system_exit_code)
        user_bytes == u32_shl24_to_be_bytes(user_exit_code)
        down_len == u16_shl8_to_be_bytes(4)
    IN hashv(<< RECEIPT_CLAIM_TAG, input_digest, pre_state_digest,
                post_state_digest, output_digest, system_bytes, user_bytes,
                down_len >>)

\* compute_claim_digest
compute_claim_digest(image_id, journal_digest) ==
    LET input_digest == Zero32
        pre_digest == image_id
        post_digest == SYSTEM_STATE_ZERO_DIGEST
        output_digest == compute_output_digest_ok(journal_digest)
        system_exit == 0
        user_exit == 0
    IN compute_receipt_claim_digest(input_digest, pre_digest, post_digest,
                                    output_digest, system_exit, user_exit)

\* The image ids and journal digests compute_claim_digest is applied to
ClaimInputs ==
    {Zero32, Max32, [Zero32 EXCEPT ![1] = 1], [Zero32 EXCEPT ![32] = 1]}

\* A call of compute_claim_digest
ComputeClaimDigest(image_id, journal_digest) ==
    /\ pure.op = "none"
    /\ pure' = [op |-> "compute_claim_digest", image_id |-> image_id,
                journal_digest |-> journal_digest,
                result |-> compute_claim_digest(image_id, journal_digest)]
    /\ UNCHANGED << routerVars, run, storage >>

\* The borrow into byte k of the big-endian subtraction a - b of two
\* 32-byte numbers (the borrow out of byte k + 1)
RECURSIVE sub_borrow(_, _, _)
sub_borrow(a, b, k) ==
    IF k >= 32 THEN 0
    ELSE IF a[k + 1] - b[k + 1] - sub_borrow(a, b, k + 1) < 0 THEN 1
    ELSE 0

\* BigUint subtraction a - b on 32-byte big-endian numbers; it panics when
\* b is larger than a
biguint_sub(a, b) ==
    IF sub_borrow(a, b, 0) = 1 THEN [status |-> "Panic", value |-> << >>]
    ELSE [status |-> "Ok",
          value |-> [k \in ByteIndex |->
                        (a[k] - b[k] - sub_borrow(a, b, k) + 256) % 256]]

\* BigUint::to_bytes_be: no leading zero byte, and [0] for zero
RECURSIVE to_bytes_be(_)
to_bytes_be(v) ==
    IF Len(v) <= 1 THEN v
    ELSE IF Head(v) = 0 THEN to_bytes_be(Tail(v))
    ELSE v

\* negate_g1 that writes the bytes of q - y at the start of the y field
negate_g1_LeftAligned(point) ==
    LET x == SubSeq(point, 1, 32)
        y == SubSeq(point, 33, 64)
        y_big == biguint_sub(BASE_FIELD_MODULUS_Q, y)
        y_bytes == to_bytes_be(y_big.value)
    IN IF y_big.status # "Ok" THEN [status |-> y_big.status, point |-> << >>]
       ELSE [status |-> "Ok",
             point |-> [k \in 1 .. 64 |->
                          IF k <= 32 THEN x[k]
                          ELSE IF k - 32 <= Len(y_bytes) THEN y_bytes[k - 32]
                          ELSE 0]]

\* negate_g1: x kept, y replaced by q - y, its bytes right-aligned in the
\* zeroed result
negate_g1(point) ==
    LET x == SubSeq(point, 1, 32)
        y == SubSeq(point, 33, 64)
        y_big == biguint_sub(BASE_FIELD_MODULUS_Q, y)
        y_bytes == to_bytes_be(y_big.value)
    IN IF y_big.status # "Ok" THEN [status |-> y_big.status, point |-> << >>]
       ELSE [status |-> "Ok",
             point |-> [k \in 1 .. 64 |->
                          IF k <= 32 THEN x[k]
                          ELSE IF k <= 64 - Len(y_bytes) THEN 0
                          ELSE y_bytes[k - (64 - Len(y_bytes))]]]

\* The points negate_g1 is applied to: two x-coordinates, and for y the
\* scalars around 0, q and 2^256 - 1
G1Points == {x \o y : x \in {Max32, [Zero32 EXCEPT ![32] = 1]}, y \in ScalarCases}

\* A call of negate_g1
NegateG1(point) ==
    /\ pure.op = "none"
    /\ pure' = [op |-> "negate_g1", point |-> point,
                result |-> negate_g1(point)]
    /\ UNCHANGED << routerVars, run, storage >>

\* receipt_to_proof: a seal shorter than 256 bytes is an error; else the
\* proof is cut from the seal and pi_a replaced by negate_g1(pi_a)
receipt_to_proof(seal) ==
    IF Len(seal) < 256 THEN [status |-> "Err", proof |-> << >>]
    ELSE LET proof == [pi_a |-> SubSeq(seal, 1, 64),
                       pi_b |-> SubSeq(seal, 65, 192),
                       pi_c |-> SubSeq(seal, 193, 256)]
             negated == negate_g1(proof.pi_a)
         IN IF negated.status # "Ok"
            THEN [status |-> negated.status, proof |-> << >>]
            ELSE [status |-> "Ok",
                  proof |-> [proof EXCEPT !.pi_a = negated.point]]

\* The seals of the receipts: a point of G1Points followed by 192 bytes,
\* cut to 255 bytes, whole, or followed by four more bytes
Seals ==
    UNION {{SubSeq(seal, 1, 255), seal, seal \o << 1, 2, 3, 4 >>} :
              seal \in {pt \o [k \in 1 .. 192 |-> (5 * k + 1) % 256] :
                           pt \in G1Points}}

\* A call of receipt_to_proof
ReceiptToProof(seal) ==
    /\ pure.op = "none"
    /\ pure' = [op |-> "receipt_to_proof", seal |-> seal,
                result |-> receipt_to_proof(seal)]
    /\ UNCHANGED << routerVars, run, storage >>

\* A call of is_scalar_valid
IsScalarValid(scalar) ==
    /\ pure.op = "none"
    /\ pure' = [op |-> "is_scalar_valid", scalar |-> scalar,
                result |-> is_scalar_valid(scalar)]
    /\ UNCHANGED << routerVars, run, storage >>

\* A call of risc0-solana's public_inputs
PublicInputs(claim_digest, root, id) ==
    LET r == public_inputs(claim_digest, hex_encode(root), hex_encode(id))
    IN
    /\ pure.op = "none"
    /\ pure' = [op |-> "public_inputs", claim_digest |-> claim_digest,
                root |-> root, id |-> id,
                result |-> r.status, inputs |-> r.inputs]
    /\ UNCHANGED << routerVars, run, storage >>

\* A call of groth_16_verifier's public_inputs
Groth16PublicInputs(claim_digest) ==
    LET r == groth_16_public_inputs(claim_digest)
    IN
    /\ pure.op = "none"
    /\ pure' = [op |-> "groth_16_public_inputs",
                claim_digest |-> claim_digest,
                root |-> ALLOWED_CONTROL_ROOT,
                id |-> BN254_IDENTITY_CONTROL_ID,
                result |-> r.status, inputs |-> r.inputs]
    /\ UNCHANGED << routerVars, run, storage >>

\* The call returns to its caller
PureReturn ==
    /\ pure.op # "none"
    /\ pure' = [op |-> "none"]
    /\ UNCHANGED << routerVars, run, storage >>

NextPure ==
    \/ PureReturn
    \/ \E x \in ScalarCases : IsScalarValid(x)
    \/ \E d \in Digests, r \in ControlRoots, i \in ControlIds :
          PublicInputs(d, r, i)
    \/ \E d \in Digests : Groth16PublicInputs(d)
    \/ \E i \in ClaimInputs, j \in ClaimInputs : ComputeClaimDigest(i, j)
    \/ \E pt \in G1Points : NegateG1(pt)
    \/ \E seal \in Seals : ReceiptToProof(seal)

\* ---------------------------------------------------------------------------
\* The Groth16 verification call, one step per curve primitive
\* ---------------------------------------------------------------------------

\* The largest number of public inputs N of a call
MaxN == 2

\* verify_proof (risc0-solana), verify_groth_proof (groth_16_verifier) and
\* Verifier::verify (the earlier crate)
CheckedVariants == {"verify_proof", "verify_groth_proof"}
Variants == CheckedVariants \cup {"Verifier"}

\* The public-input elements of a call
VerifyScalars == {Zero32, QMinusOne, BASE_FIELD_MODULUS_Q, Max32}

\* PublicInputs<N>, N in 1 .. MaxN
PublicInputVectors == UNION {[1 .. n -> VerifyScalars] : n \in 1 .. MaxN}

\* The lengths of vk.vk_ic tried with N public inputs
IcLens(n) == {n, n + 1, n + 2}

\* [0u8; 31] + [1u8]
One32 == [k \in ByteIndex |-> IF k = 32 THEN 1 ELSE 0]

\* What alt_bn128_pairing answers: an error or 32 bytes. The syscall is
\* documented to return 0 or 1; a third value stands for any other bytes.
PairingOutcomes ==
    {[ok |-> FALSE, value |-> << >>]}
        \cup {[ok |-> TRUE, value |-> v] :
                 v \in {Zero32, One32, [One32 EXCEPT ![1] = 1]}}

\* A point of the verification key: vk names the key, ic the index in
\* vk_ic
vk_ic(vk, k) == [vk |-> vk, ic |-> k, scalar |-> << >>]

\* Proof { pi_a: [u8; 64], pi_b: [u8; 128], pi_c: [u8; 64] } of a proof
\* that verifies under the key "fixture"; the three parts have different
\* bytes
FixtureProof ==
    [pi_a |-> [k \in 1 .. 64 |-> (3 * k) % 256],
     pi_b |-> [k \in 1 .. 128 |-> (5 * k + 1) % 256],
     pi_c |-> [k \in 1 .. 64 |-> (7 * k + 2) % 256]]

\* No verification call in progress
IdleRun ==
    [pc |-> "idle", variant |-> "none", public |-> << >>, ic_len |-> 0,
     i |-> 0, muls |-> 0, adds |-> 0, pairings |-> 0, failed |-> "none",
     pairing_res |-> << >>, result |-> "none", caller |-> "none",
     vk |-> "none", proof |-> << >>, prepared |-> << >>, mul_res |-> << >>,
     pairing_input |-> << >>]

\* The call ends with this result
Done(r, result) == [r EXCEPT !.pc = "done", !.result = result]

\* impl From<Risc0SolanaError> for ProgramError: Custom(error as u32)
program_error(e) ==
    CASE e = "VerificationError" -> "Custom(2)"
      [] e = "InvalidPublicInput" -> "Custom(3)"
      [] e = "ArithmeticError" -> "Custom(4)"
      [] e = "PairingError" -> "Custom(5)"
      [] OTHER -> e

\* The length check with a vk_ic longer than N + 1 let through
verify_proof_ic_check_AtLeast(public, ic_len) ==
    IF ic_len < Len(public) + 1 THEN "InvalidPublicInput" ELSE "Ok"

\* verify_proof / verify_groth_proof: `vk.vk_ic.len() != N_PUBLIC + 1`
verify_proof_ic_check(public, ic_len) ==
    IF ic_len # Len(public) + 1 THEN "InvalidPublicInput" ELSE "Ok"

\* The loop leaving out the last public input
verify_proof_loop_SkipsLast(r) ==
    IF r.i + 1 >= Len(r.public) THEN [r EXCEPT !.pc = "pairing"]
    ELSE IF ~is_scalar_valid(r.public[r.i + 1])
         THEN Done(r, "InvalidPublicInput")
    ELSE [r EXCEPT !.pc = "mul"]

\* verify_proof / verify_groth_proof, the head of the loop over the inputs:
\* the scalar check of input i (0-based), before its multiplication
verify_proof_loop(r) ==
    IF r.i = Len(r.public) THEN [r EXCEPT !.pc = "pairing"]
    ELSE IF ~is_scalar_valid(r.public[r.i + 1])
         THEN Done(r, "InvalidPublicInput")
    ELSE [r EXCEPT !.pc = "mul"]

\* Verifier::prepare, the head of its loop: no check of the scalar;
\* vk_ic[i + 1] beyond the slice panics
Verifier_prepare_loop(r) ==
    IF r.i = Len(r.public) THEN [r EXCEPT !.pc = "pairing"]
    ELSE IF r.i + 1 >= r.ic_len THEN Done(r, "Panic")
    ELSE [r EXCEPT !.pc = "mul"]

\* alt_bn128_multiplication(..) failed: map_err(ArithmeticError)? in
\* verify_proof / verify_groth_proof, unwrap() in Verifier::prepare
mul_failed(variant) ==
    IF variant \in CheckedVariants THEN "ArithmeticError" ELSE "Panic"

\* alt_bn128_addition(..) failed: unwrap() in every variant
add_failed(variant) == "Panic"

\* The comparison of the pairing's answer with 1 left out
verify_proof_pairing_result_IgnoresValue(outcome) ==
    IF ~outcome.ok THEN "PairingError" ELSE "Ok"

\* verify_proof / verify_groth_proof after alt_bn128_pairing
verify_proof_pairing_result(outcome) ==
    IF ~outcome.ok THEN "PairingError"
    ELSE IF outcome.value # One32 THEN "VerificationError"
    ELSE "Ok"

\* Verifier::verify after alt_bn128_pairing
Verifier_verify_result(outcome) ==
    IF ~outcome.ok THEN "Custom(1)"
    ELSE IF outcome.value[32] # 1 THEN "Custom(2)"
    ELSE "Ok"

\* The pairing input with pi_a and pi_c exchanged
pairing_input_of_Swapped(r) ==
    << r.proof.pi_c, r.proof.pi_b, r.prepared, [vk |-> r.vk, g2 |-> "gamma"],
       r.proof.pi_a, [vk |-> r.vk, g2 |-> "delta"],
       [vk |-> r.vk, g1 |-> "alpha"], [vk |-> r.vk, g2 |-> "beta"] >>

\* pairing_input: the eight slices in the order of their concatenation
pairing_input_of(r) ==
    << r.proof.pi_a, r.proof.pi_b, r.prepared, [vk |-> r.vk, g2 |-> "gamma"],
       r.proof.pi_c, [vk |-> r.vk, g2 |-> "delta"],
       [vk |-> r.vk, g1 |-> "alpha"], [vk |-> r.vk, g2 |-> "beta"] >>

\* The public inputs the fixture proof verifies with: the vector of
\* groth_16_public_inputs for a claim digest
FixturePublic ==
    groth_16_public_inputs([k \in ByteIndex |-> (11 * k + 3) % 256]).inputs

\* The pairing input of the fixture: its proof, the accumulator of its
\* five public inputs and the key
FixturePairingInput ==
    << FixtureProof.pi_a, FixtureProof.pi_b,
       << vk_ic("fixture", 0) >> \o
          [k \in 1 .. 5 |-> [vk |-> "fixture", ic |-> k,
                              scalar |-> FixturePublic[k]]],
       [vk |-> "fixture", g2 |-> "gamma"],
       FixtureProof.pi_c, [vk |-> "fixture", g2 |-> "delta"],
       [vk |-> "fixture", g1 |-> "alpha"], [vk |-> "fixture", g2 |-> "beta"] >>

\* What alt_bn128_multiplication answers (TRUE: a point): the points of
\* the fixture's key are on the curve, so their multiplication succeeds;
\* with another key either answer
alt_bn128_multiplication(point, scalar) ==
    IF point.vk = "fixture" THEN {TRUE} ELSE BOOLEAN

\* What alt_bn128_addition answers (TRUE: a point)
alt_bn128_addition(mul_res, prepared) ==
    IF mul_res.vk = "fixture" THEN {TRUE} ELSE BOOLEAN

\* What alt_bn128_pairing answers. Under the fixture's key the fixture
\* satisfies the pairing equation; the other inputs given to that key
\* differ from the fixture in one bit of pi_a, pi_b, pi_c or one scalar,
\* and as each of the four is determined by the other three and a change
\* of one bit changes a scalar modulo the group order, such an input is
\* refused or fails the equation. With another key any answer.
alt_bn128_pairing(input) ==
    IF input[4].vk # "fixture" THEN PairingOutcomes
    ELSE IF input = FixturePairingInput
         THEN {[ok |-> TRUE, value |-> One32]}
    ELSE {[ok |-> FALSE, value |-> << >>], [ok |-> TRUE, value |-> Zero32]}

\* Bit j of byte v inverted
FlipBit(v, j) ==
    IF (v \div (2 ^ j)) % 2 = 1 THEN v - 2 ^ j ELSE v + 2 ^ j

\* The byte string with bit j of byte k inverted
FlipByte(bytes, k, j) == [bytes EXCEPT ![k] = FlipBit(@, j)]

\* The bytes of a string of len bytes in which a bit is inverted: its first
\* two, its last, and the two in the middle
FlippedBytes(len) == {1, 2, len \div 2, len \div 2 + 1, len}

\* The fixture with one bit inverted in pi_a, pi_b, pi_c or one public
\* input
TamperedFixtures ==
    {[proof |-> [FixtureProof EXCEPT !.pi_a = FlipByte(@, k, j)],
      public |-> FixturePublic] : k \in FlippedBytes(64), j \in 0 .. 7}
    \cup {[proof |-> [FixtureProof EXCEPT !.pi_b = FlipByte(@, k, j)],
           public |-> FixturePublic] : k \in FlippedBytes(128), j \in 0 .. 7}
    \cup {[proof |-> [FixtureProof EXCEPT !.pi_c = FlipByte(@, k, j)],
           public |-> FixturePublic] : k \in FlippedBytes(64), j \in 0 .. 7}
    \cup UNION {{[proof |-> FixtureProof,
                  public |-> [FixturePublic EXCEPT ![e] = FlipByte(@, k, j)]] :
                    k \in FlippedBytes(32), j \in 0 .. 7} : e \in 1 .. 5}

\* The call is made: the check of vk.vk_ic's length, then `prepared =
\* vk.vk_ic[0]`
VerifyCall(variant, public, ic_len) ==
    LET r == [IdleRun EXCEPT !.variant = variant, !.public = public,
                             !.ic_len = ic_len, !.vk = "other",
                             !.proof = FixtureProof,
                             !.prepared = << vk_ic("other", 0) >>]
    IN
    /\ run.pc = "idle"
    /\ run' = IF variant \in CheckedVariants
                 /\ verify_proof_ic_check(public, ic_len) # "Ok"
              THEN Done(r, verify_proof_ic_check(public, ic_len))
              ELSE [r EXCEPT !.pc = "loop"]
    /\ UNCHANGED << routerVars, pure, storage >>

\* verify_groth_proof is called with the fixture, or with the fixture with
\* one bit inverted, under the fixture's key
VerifyFixture(proof, public) ==
    LET r == [IdleRun EXCEPT !.variant = "verify_groth_proof",
                             !.public = public, !.ic_len = Len(public) + 1,
                             !.vk = "fixture", !.proof = proof,
                             !.prepared = << vk_ic("fixture", 0) >>]
    IN
    /\ run.pc = "idle"
    /\ run' = IF verify_proof_ic_check(public, r.ic_len) # "Ok"
              THEN Done(r, verify_proof_ic_check(public, r.ic_len))
              ELSE [r EXCEPT !.pc = "loop"]
    /\ UNCHANGED << routerVars, pure, storage >>

\* The head of the loop over public.inputs
VerifyLoop ==
    /\ run.pc = "loop"
    /\ run' = IF run.variant \in CheckedVariants THEN verify_proof_loop(run)
              ELSE Verifier_prepare_loop(run)
    /\ UNCHANGED << routerVars, pure, storage >>

\* alt_bn128_multiplication(vk_ic[i + 1] ++ input)
Multiplication(ok) ==
    /\ run.pc = "mul"
    /\ ok \in alt_bn128_multiplication(vk_ic(run.vk, run.i + 1),
                                       run.public[run.i + 1])
    /\ run' = LET r == [run EXCEPT !.muls = @ + 1]
              IN IF ok THEN [r EXCEPT !.pc = "add",
                                      !.mul_res =
                                         [vk |-> run.vk, ic |-> run.i + 1,
                                          scalar |-> run.public[run.i + 1]]]
                 ELSE Done([r EXCEPT !.failed = "mul"],
                           mul_failed(run.variant))
    /\ UNCHANGED << routerVars, pure, storage >>

\* alt_bn128_addition(mul_res ++ prepared)
Addition(ok) ==
    /\ run.pc = "add"
    /\ ok \in alt_bn128_addition(run.mul_res, run.prepared)
    /\ run' = LET r == [run EXCEPT !.adds = @ + 1]
              IN IF ok THEN [r EXCEPT !.pc = "loop", !.i = @ + 1,
                                      !.prepared = Append(@, run.mul_res)]
                 ELSE Done([r EXCEPT !.failed = "add"],
                           add_failed(run.variant))
    /\ UNCHANGED << routerVars, pure, storage >>

\* alt_bn128_pairing(pairing_input) and the comparison of its answer
Pairing(outcome) ==
    /\ run.pc = "pairing"
    /\ outcome \in alt_bn128_pairing(pairing_input_of(run))
    /\ run' = LET r == [run EXCEPT !.pairings = @ + 1,
                                   !.pairing_input = pairing_input_of(run),
                                   !.pairing_res = outcome.value,
                                   !.failed = IF outcome.ok THEN "none"
                                              ELSE "pairing"]
              IN Done(r, IF run.variant \in CheckedVariants
                         THEN verify_proof_pairing_result(outcome)
                         ELSE Verifier_verify_result(outcome))
    /\ UNCHANGED << routerVars, pure, storage >>

\* ---------------------------------------------------------------------------
\* examples/hello_example: the program's verify instruction
\* ---------------------------------------------------------------------------

\* ALLOWED_CONTROL_ROOT: &str of hello_example, its hex digits
HELLO_ALLOWED_CONTROL_ROOT ==
    << 10, 5, 1, 6, 10, 0, 5, 7, 12, 9, 15, 11, 15, 5, 6, 2,
       9, 1, 0, 6, 3, 0, 0, 9, 3, 4, 13, 4, 8, 14, 0, 14,
       7, 7, 5, 13, 4, 2, 3, 0, 14, 4, 1, 14, 5, 0, 3, 3,
       4, 7, 12, 10, 13, 9, 6, 15, 12, 11, 13, 14, 7, 14, 2, 14 >>

\* BN254_IDENTITY_CONTROL_ID: &str of hello_example, its hex digits
HELLO_BN254_IDENTITY_CONTROL_ID ==
    << 5, 1, 11, 5, 4, 10, 6, 2, 15, 2, 10, 10, 5, 9, 9, 10,
       14, 15, 7, 6, 8, 7, 4, 4, 12, 9, 5, 13, 14, 8, 12, 7,
       13, 8, 9, 11, 15, 7, 1, 6, 14, 1, 1, 11, 1, 1, 7, 9,
       15, 0, 5, 13, 6, 12, 15, 0, 11, 12, 15, 14, 11, 6, 0, 14 >>

\* VERIFYING_KEY.vk_ic.len()
HelloIcLen == 6

\* The instructions sent to hello_example: without account, with data that
\* is not 160 bytes long, with a first account too small for the Storage,
\* with proof bytes that do not decompress, or well formed
HelloRequests ==
    {"no_accounts", "short_data", "small_account", "bad_compression",
     "well_formed"}

\* The claim digests sent to hello_example
HelloClaimDigests == {Zero32, Max32, [Zero32 EXCEPT ![32] = 1]}

\* The account before any Storage was written to it
EmptyStorage == << >>

\* The instruction ends with this result
Returned(r, result) == [r EXCEPT !.pc = "returned", !.result = result]

\* hello_example verify up to its call of verify_proof: the checks of the
\* accounts and the data, public_inputs, the write of the Storage to
\* accounts[0] and the decompression of the proof
hello_verify_prologue(request) ==
    IF request = "no_accounts" THEN "NotEnoughAccountKeys"
    ELSE IF request = "short_data" THEN "InvalidInstructionData"
    ELSE IF request = "small_account" THEN "BorshIoError"
    ELSE IF request = "bad_compression" THEN "DecompressionFailure"
    ELSE "Ok"

\* hello_example verify is called and runs to its call of verify_proof
HelloVerify(request, claim_digest) ==
    LET inputs == public_inputs(claim_digest, HELLO_ALLOWED_CONTROL_ROOT,
                                HELLO_BN254_IDENTITY_CONTROL_ID).inputs
        r == [IdleRun EXCEPT !.caller = "hello_example",
                             !.variant = "verify_proof",
                             !.public = inputs, !.ic_len = HelloIcLen,
                             !.vk = "other", !.proof = FixtureProof,
                             !.prepared = << vk_ic("other", 0) >>]
    IN
    /\ run.pc = "idle"
    /\ run' = IF hello_verify_prologue(request) # "Ok"
              THEN Returned(r, hello_verify_prologue(request))
              ELSE [r EXCEPT !.pc = "loop"]
    /\ UNCHANGED << routerVars, pure, storage >>

\* verify_proof returned to hello_example verify: any error becomes
\* VerificationFailure. The Storage written to accounts[0] before the
\* proof was looked at stays when the instruction succeeds; the runtime
\* discards it when the instruction fails.
HelloFinish ==
    /\ run.pc = "done"
    /\ run.caller = "hello_example"
    /\ run' = Returned(run, IF run.result \in {"Ok", "Panic"}
                            THEN run.result ELSE "VerificationFailure")
    /\ storage' = IF run.result = "Ok" THEN run.public ELSE storage
    /\ UNCHANGED << routerVars, pure >>

\* The call returns to its caller
VerifyReturn ==
    /\ \/ run.pc = "done" /\ run.caller = "none"
       \/ run.pc = "returned"
    /\ run' = IdleRun
    /\ UNCHANGED << routerVars, pure, storage >>

NextVerify ==
    \/ \E v \in Variants, p \in PublicInputVectors :
          \E l \in IcLens(Len(p)) : VerifyCall(v, p, l)
    \/ \E t \in TamperedFixtures
                 \cup {[proof |-> FixtureProof, public |-> FixturePublic]} :
          VerifyFixture(t.proof, t.public)
    \/ VerifyLoop
    \/ \E ok \in BOOLEAN : Multiplication(ok)
    \/ \E ok \in BOOLEAN : Addition(ok)
    \/ \E o \in PairingOutcomes : Pairing(o)
    \/ \E rq \in HelloRequests, d \in HelloClaimDigests : HelloVerify(rq, d)
    \/ HelloFinish
    \/ VerifyReturn

Init ==
    /\ InitRouter
    /\ run = IdleRun
    /\ pure = [op |-> "none"]
    /\ storage = EmptyStorage

SpecRouter == Init /\ [][NextRouter]_vars

SpecVerify == Init /\ [][NextVerify]_vars

SpecPure == Init /\ [][NextPure]_vars

-----------------------------------------------------------------------------
(* Claims about the router *)

\* C1 (as stated): emergency_stop_with_proof stops the verifier only if the
\* verifier accepted the proof for a null image id and journal digest; when
\* the verifier rejects it the call returns InvalidProofOfExploit (and so
\* closes nothing).
C1_StopOnlyWithAcceptedProof ==
    (lastCall.op = "emergency_stop_with_proof" /\ lastCall.acc = "Ok") =>
        /\ lastCall.result = "Ok" => lastCall.cpi = "Ok"
        /\ lastCall.cpi # "Ok" => lastCall.result = "InvalidProofOfExploit"

\* C8: once an emergency stop of selector s succeeded, the entry of s is gone
\* for good and every later router verify with selector s fails.
C8_StoppedSelectorNeverVerifies ==
    \A s \in stopped :
        /\ entries[s] = NoEntry
        /\ (lastCall.op = "verify" /\ lastCall.selector = s)
               => lastCall.result # "Ok"

\* C8 witness: a verify on a stopped selector, after another verifier was
\* registered behind it and the ownership changed hands.
C8_Witness ==
    /\ lastCall.op = "verify"
    /\ lastCall.selector \in stopped
    /\ lastCall.result = "AccountNotInitialized"
    /\ verifier_count > lastCall.selector
    /\ owner # "alice"

\* C9: add_verifier never accepts a selector that was registered before,
\* stopped or not.
C9_NoSelectorReuse ==
    [][(lastCall'.op = "add_verifier" /\ lastCall'.result = "Ok")
          => lastCall'.selector \notin registered]_vars

\* C9 witness: add_verifier refused a selector that was stopped earlier.
C9_Witness ==
    /\ lastCall.op = "add_verifier"
    /\ lastCall.selector \in stopped
    /\ lastCall.signer = owner
    /\ lastCall.result = "SelectorInvalid"

OwnerGatedRegistryOps == {"add_verifier", "emergency_stop"}

\* C10 (as stated): add_verifier and the owner's emergency_stop succeed only
\* for the current owner, and return NotOwner for every other signer.
C10_NotOwnerForAnyOtherSigner ==
    lastCall.op \in OwnerGatedRegistryOps =>
        /\ lastCall.result = "Ok" => lastCall.signer = owner
        /\ lastCall.signer # owner => lastCall.result = "NotOwner"

\* C10 (amended): add_verifier and the owner's emergency_stop succeed only
\* for the current owner; for any other signer they fail, with the error of
\* the account validation when that fails and with NotOwner otherwise, and
\* leave the verifier count, every entry and the ownership record unchanged.
C10_OwnerGated ==
    [][lastCall'.op \in OwnerGatedRegistryOps =>
          /\ lastCall'.result = "Ok" => lastCall'.signer = owner
          /\ lastCall'.signer # owner =>
                /\ lastCall'.result =
                      IF lastCall'.acc = "Ok" THEN "NotOwner"
                      ELSE lastCall'.acc
                /\ lastCall'.result # "Ok"
                /\ UNCHANGED << verifier_count, entries, owner,
                                pending_owner >>]_vars

\* C10 witness: a signer who is not the owner was refused an emergency stop
\* of a registered verifier.
C10_Witness ==
    /\ lastCall.op = "emergency_stop"
    /\ lastCall.signer # owner
    /\ lastCall.acc = "Ok"
    /\ lastCall.result = "NotOwner"
    /\ entries[lastCall.selector] # NoEntry

\* ---------------------------------------------------------------------------
\* Claims about the verification engine
\* ---------------------------------------------------------------------------

\* x - q byte by byte from the least significant byte: the borrow out of
\* byte k
RECURSIVE BorrowFrom(_, _)
BorrowFrom(x, k) ==
    IF k > 32 THEN 0
    ELSE IF x[k] - BASE_FIELD_MODULUS_Q[k] - BorrowFrom(x, k + 1) < 0 THEN 1
    ELSE 0

\* x < q as 256-bit big-endian integers: x - q borrows out of the top byte
LessThanQ(x) == BorrowFrom(x, 1) = 1

\* C2: public_inputs called with the all-zero claim digest returns
\* InvalidPublicInput and no public-input vector, whatever the control root
\* and the identity control id.
C2_NullClaimDigestRejected ==
    (pure.op \in {"public_inputs", "groth_16_public_inputs"}
        /\ pure.claim_digest = Zero32)
    => pure.result = "InvalidPublicInput"

\* C3: verification never panics, and a failed scalar multiplication or
\* point addition while the public inputs are accumulated ends the call with
\* ArithmeticError.
C3_ArithmeticErrorNeverPanic ==
    /\ run.result # "Panic"
    /\ (run.pc = "done" /\ run.failed \in {"mul", "add"})
       => run.result = "ArithmeticError"

\* C4: when vk_ic's length is not N + 1, verify_proof / verify_groth_proof
\* return InvalidPublicInput and no multiplication, addition or pairing has
\* been called.
C4_IcLengthCheckedFirst ==
    (run.variant \in CheckedVariants /\ run.ic_len # Len(run.public) + 1)
    => /\ run.pc = "done"
       /\ run.result = "InvalidPublicInput"
       /\ run.muls = 0 /\ run.adds = 0 /\ run.pairings = 0

\* verify_proof was called with one IC point too many and in-range inputs,
\* and returned InvalidPublicInput
C4_Witness ==
    /\ run.pc = "done"
    /\ run.variant = "verify_proof"
    /\ run.ic_len = Len(run.public) + 2
    /\ \A k \in 1 .. Len(run.public) : LessThanQ(run.public[k])
    /\ run.result = "InvalidPublicInput"
    /\ run.muls = 0

\* C5: a call with any public-input element >= q ends with
\* InvalidPublicInput and never calls the pairing, wherever the element is
\* in the vector.
C5_OutOfRangeElementRejected ==
    (run.pc = "done"
        /\ \E k \in 1 .. Len(run.public) : ~LessThanQ(run.public[k]))
    => run.result = "InvalidPublicInput" /\ run.pairings = 0

\* C6: is_scalar_valid(x) is true exactly when x < q; it accepts 0 and
\* q - 1 and rejects q, q + 1 and 2^256 - 1.
C6_ScalarValidIffLessThanQ ==
    /\ pure.op = "is_scalar_valid"
       => (pure.result <=> LessThanQ(pure.scalar))
    /\ is_scalar_valid(Zero32) /\ is_scalar_valid(QMinusOne)
    /\ ~is_scalar_valid(BASE_FIELD_MODULUS_Q)
    /\ ~is_scalar_valid(QPlusOne) /\ ~is_scalar_valid(Max32)

\* is_scalar_valid was applied to q itself and answered false
C6_Witness ==
    /\ pure.op = "is_scalar_valid"
    /\ pure.scalar = BASE_FIELD_MODULUS_Q
    /\ pure.result = FALSE

\* C7: once the pairing is called its answer alone decides the call:
\* PairingError when the primitive fails, Ok only when it returns the
\* 32-byte big-endian 1, VerificationError for any other value (each error
\* taken as the error itself or as its ProgramError).
C7_PairingAloneDecides ==
    (run.pc = "done" /\ run.pairings = 1)
    => LET expected == IF run.failed = "pairing" THEN "PairingError"
                       ELSE IF run.pairing_res = One32 THEN "Ok"
                       ELSE "VerificationError"
       IN run.result \in {expected, program_error(expected)}

\* ---------------------------------------------------------------------------
\* Claims about the registry and the ownership
\* ---------------------------------------------------------------------------

\* The errors add_verifier is documented to fail with, NotOwner and the
\* errors of the accounts' own validation
AddVerifierErrors ==
    {"SelectorInvalid", "VerifierInvalidAuthority", "Overflow", "NotOwner",
     "AccountAlreadyInUse", "AccountNotInitialized"}

\* C11: add_verifier(selector) succeeds only if selector is
\* verifier_count + 1 and the verifier's upgrade authority is the router;
\* a success stores the entry (selector, verifier program) and adds exactly 1
\* to verifier_count; any other call fails with an error value (Overflow at
\* the counter's maximum) and changes nothing.
C11_AddVerifierContract ==
    [][lastCall'.op = "add_verifier" =>
        LET s == lastCall'.selector IN
        IF lastCall'.result = "Ok"
        THEN /\ s = verifier_count + 1
             /\ entries'[s].selector = s
             /\ entries'[s].verifier \in Programs
             /\ programData[entries'[s].verifier].upgrade_authority
                    = RouterKey
             /\ verifier_count' = verifier_count + 1
             /\ \A t \in Selectors \ {s} : entries'[t] = entries[t]
        ELSE /\ lastCall'.result \in AddVerifierErrors
             /\ UNCHANGED << verifier_count, entries >>]_vars

\* C12: router verify dispatches only to the verifier program stored in the
\* entry of the selector: another program is rejected with InvalidVerifier,
\* a selector without entry fails, and the call returns Ok exactly when the
\* stored verifier returns Ok for the same proof, image id and journal digest.
C12_VerifyDispatch ==
    lastCall.op = "verify" =>
        LET s == lastCall.selector
            stored == entries[s].verifier
        IN
        /\ entries[s] = NoEntry => lastCall.result = "AccountNotInitialized"
        /\ (entries[s] # NoEntry /\ lastCall.program # stored)
           => lastCall.result = "InvalidVerifier"
        /\ lastCall.cpi # None
           => entries[s] # NoEntry /\ lastCall.program = stored
        /\ lastCall.result = "Ok" <=> lastCall.cpi = "Ok"
        /\ (entries[s] # NoEntry /\ lastCall.program = stored
               /\ stored = "test_bad_verifier")
           => lastCall.result =
                 IF programData[stored].closed THEN "ProgramClosed"
                 ELSE test_bad_verify(lastCall.request[1],
                                      lastCall.request[2],
                                      lastCall.request[3])

\* A verify through selector 2 was answered Ok by the stored verifier after
\* another program had been handed in for the same selector and refused
C12_Witness ==
    /\ lastCall.op = "verify"
    /\ lastCall.selector = 2
    /\ entries[2].verifier = "test_bad_verifier"
    /\ entries[1].verifier = "groth_16_verifier"
    /\ lastCall.program = "test_bad_verifier"
    /\ lastCall.cpi = "Ok"
    /\ lastCall.result = "Ok"

\* C13: transfer_ownership never changes the owner; the owner becomes X only
\* by an accept_ownership signed by X while X is the pending owner, which
\* clears the pending owner; accept_ownership by anyone else fails with
\* NoPendingTransfer when nothing is pending and NotPendingOwner otherwise,
\* and changes nothing.
C13_TwoStepTransfer ==
    [][/\ lastCall'.op = "transfer_ownership" => owner' = owner
       /\ (owner' # owner /\ owner' # None)
          => /\ lastCall'.op = "accept_ownership"
             /\ lastCall'.signer = owner'
             /\ lastCall'.result = "Ok"
             /\ pending_owner = owner'
             /\ pending_owner' = None
       /\ (lastCall'.op = "accept_ownership"
              /\ lastCall'.signer # pending_owner)
          => /\ lastCall'.result = IF pending_owner = None
                                   THEN "NoPendingTransfer"
                                   ELSE "NotPendingOwner"
             /\ UNCHANGED << owner, pending_owner >>]_vars

\* bob took the ownership over, and a later accept_ownership by a signer who
\* is not the pending owner was refused
C13_Witness ==
    /\ owner = "bob"
    /\ pending_owner = "carol"
    /\ lastCall.op = "accept_ownership"
    /\ lastCall.signer = "alice"
    /\ lastCall.result = "NotPendingOwner"

\* The operations that assert the owner
OwnerGatedOps ==
    {"transfer_ownership", "renounce_ownership", "add_verifier",
     "emergency_stop"}

\* C14: a successful renounce_ownership leaves owner and pending owner
\* empty; from then on the owner stays empty whatever is called, and
\* transfer_ownership, renounce_ownership, add_verifier and the owner's
\* emergency_stop all fail.
C14_RenounceIrreversible ==
    [][/\ (lastCall'.op = "renounce_ownership" /\ lastCall'.result = "Ok")
          => owner' = None /\ pending_owner' = None
       /\ owner = None
          => /\ owner' = None
             /\ lastCall'.op \in OwnerGatedOps => lastCall'.result # "Ok"]_vars

\* After the renouncement the former owner's add_verifier, valid in every
\* other respect, was refused
C14_Witness ==
    /\ owner = None
    /\ pending_owner = None
    /\ lastCall.op = "add_verifier"
    /\ lastCall.signer = "alice"
    /\ lastCall.acc = "Ok"
    /\ lastCall.result = "NotOwner"

\* C15: transfer_ownership(new_owner) fails with NotOwner for a signer who
\* is not the owner, with CannotTransferToSelf when the owner names itself,
\* with InvalidAddress when the owner names the zero address; a failure
\* changes neither owner nor pending owner, a success sets pending_owner to
\* new_owner and nothing else.
C15_TransferOwnershipErrors ==
    [][lastCall'.op = "transfer_ownership" =>
        /\ lastCall'.result =
              IF lastCall'.signer # owner THEN "NotOwner"
              ELSE IF lastCall'.new_owner = owner THEN "CannotTransferToSelf"
              ELSE IF lastCall'.new_owner = ZeroKey THEN "InvalidAddress"
              ELSE "Ok"
        /\ pending_owner' = IF lastCall'.result = "Ok"
                            THEN lastCall'.new_owner ELSE pending_owner
        /\ UNCHANGED << owner, verifier_count, entries, programData >>]_vars

\* The owner named the zero address while a transfer to carol was pending:
\* InvalidAddress, the pending owner kept
C15_Witness ==
    /\ lastCall.op = "transfer_ownership"
    /\ lastCall.signer = owner
    /\ lastCall.new_owner = ZeroKey
    /\ lastCall.result = "InvalidAddress"
    /\ pending_owner = "carol"

\* C16: cancel_transfer succeeds exactly when a transfer is pending and the
\* signer is the owner or the pending owner; it then clears the pending
\* owner and keeps the owner. It fails with NoPendingTransfer when nothing
\* is pending and with NotOwnerOrPendingOwner for any other signer, and
\* then changes nothing.
C16_CancelTransfer ==
    [][lastCall'.op = "cancel_transfer" =>
        /\ lastCall'.result =
              IF pending_owner = None THEN "NoPendingTransfer"
              ELSE IF lastCall'.signer \in {owner, pending_owner} THEN "Ok"
              ELSE "NotOwnerOrPendingOwner"
        /\ pending_owner' = IF lastCall'.result = "Ok" THEN None
                            ELSE pending_owner
        /\ UNCHANGED << owner, verifier_count, entries, programData >>]_vars

\* The pending owner, not the owner, cancelled the transfer
C16_Witness ==
    /\ lastCall.op = "cancel_transfer"
    /\ lastCall.signer = "bob"
    /\ lastCall.result = "Ok"
    /\ owner = "alice"
    /\ pending_owner = None

\* C17 as stated: a call that reaches the pairing check has made N + 1
\* scalar multiplications, N point additions and one pairing.
C17_NPlusOneMultiplications ==
    run.pairings = 1
    => /\ run.muls = Len(run.public) + 1
       /\ run.adds = Len(run.public)

\* C17: a call that reaches the pairing check has made exactly N scalar
\* multiplications (one per public input; vk_ic[0] is added unscaled), N
\* point additions and one pairing, whatever the inputs; no primitive is
\* called again after it answered.
C17_PrimitiveCounts ==
    /\ run.muls <= Len(run.public)
    /\ run.adds <= run.muls
    /\ run.pairings <= 1
    /\ run.pc = "pairing" \/ run.pairings = 1
       => /\ run.muls = Len(run.public)
          /\ run.adds = Len(run.public)

\* verify_groth_proof finished a call with two public inputs, the pairing
\* evaluated once after two multiplications and two additions
C17_Witness ==
    /\ run.pc = "done"
    /\ run.variant = "verify_groth_proof"
    /\ Len(run.public) = 2
    /\ run.pairings = 1
    /\ run.muls = 2
    /\ run.adds = 2

\* C18: compute_claim_digest(image_id, journal_digest) is the hash of
\* RECEIPT_CLAIM_TAG, 32 zero bytes, image_id, SYSTEM_STATE_ZERO_DIGEST,
\* output_digest, 4 zero bytes (system exit), 4 zero bytes (user exit) and
\* 0x04 0x00, in that order, where output_digest is the hash of OUTPUT_TAG,
\* journal_digest, 32 zero bytes and 0x02 0x00.
C18_ClaimDigestLayout ==
    pure.op = "compute_claim_digest" =>
        LET output_digest ==
                hashv(<< OUTPUT_TAG \o pure.journal_digest \o Zero32
                             \o << 2, 0 >> >>)
        IN pure.result =
              hashv(<< RECEIPT_CLAIM_TAG \o Zero32 \o pure.image_id
                          \o SYSTEM_STATE_ZERO_DIGEST \o output_digest
                          \o << 0, 0, 0, 0 >> \o << 0, 0, 0, 0 >>
                          \o << 4, 0 >> >>)

\* compute_claim_digest was applied to an image id and a journal digest
\* that differ, and its preimage is 170 bytes long
C18_Witness ==
    /\ pure.op = "compute_claim_digest"
    /\ pure.image_id = Max32
    /\ pure.journal_digest = [Zero32 EXCEPT ![1] = 1]
    /\ Len(pure.result[1].sha256) = 170
    /\ pure.result[1].sha256[65] = 255

\* C19: a verification call writes no state: whatever the call, its
\* arguments and the calls before it, no account data is different after it.
C19_VerificationWritesNothing ==
    [][UNCHANGED << storage, routerVars >>]_vars

\* The low half of a digest as a field element: 16 zero bytes, then the
\* digest's bytes 16 down to 1
LowHalfElement(d) == [k \in ByteIndex |-> IF k <= 16 THEN 0 ELSE d[33 - k]]

\* The high half of a digest as a field element: 16 zero bytes, then the
\* digest's bytes 32 down to 17
HighHalfElement(d) == [k \in ByteIndex |-> IF k <= 16 THEN 0 ELSE d[49 - k]]

\* C20: public_inputs returns [a0, a1, c0, c1, id]: (a0, a1) are the two
\* 16-byte halves of the byte-reversed control root, (c0, c1) those of the
\* byte-reversed claim digest, each half widened with leading zero bytes to
\* 32 bytes, and id is the identity control id byte-reversed; a0, a1 and id
\* are functions of the control root and the control id alone.
C20_PublicInputsVector ==
    pure.op \in {"public_inputs", "groth_16_public_inputs"} =>
        /\ pure.result = "Ok"
        /\ pure.inputs =
              << LowHalfElement(pure.root), HighHalfElement(pure.root),
                 LowHalfElement(pure.claim_digest),
                 HighHalfElement(pure.claim_digest),
                 [k \in ByteIndex |-> pure.id[33 - k]] >>

\* public_inputs was applied to a claim digest whose only non-zero byte is
\* the first: it is the last byte of c0, and c1 is zero
C20_Witness ==
    /\ pure.op = "public_inputs"
    /\ pure.claim_digest = [Zero32 EXCEPT ![1] = 1]
    /\ pure.root = ALLOWED_CONTROL_ROOT
    /\ pure.inputs[3] = One32
    /\ pure.inputs[4] = Zero32
    /\ pure.inputs[1][32] = ALLOWED_CONTROL_ROOT[1]

\* ---------------------------------------------------------------------------
\* Claims about the point encoding and the pipeline
\* ---------------------------------------------------------------------------

\* C21: for every 64-byte point whose y-coordinate is below q,
\* negate_g1(negate_g1(P)) = P, and negate_g1 keeps the x-coordinate.
C21_NegateInvolution ==
    (pure.op = "negate_g1" /\ LessThanQ(SubSeq(pure.point, 33, 64)))
    => /\ pure.result.status = "Ok"
       /\ SubSeq(pure.result.point, 1, 32) = SubSeq(pure.point, 1, 32)
       /\ negate_g1(pure.result.point) =
             [status |-> "Ok", point |-> pure.point]

\* negate_g1 was applied to a point with y = q - 256: the negated y is 256,
\* two bytes behind thirty zero bytes
C21_Witness ==
    /\ pure.op = "negate_g1"
    /\ SubSeq(pure.point, 33, 64) = [BASE_FIELD_MODULUS_Q EXCEPT ![31] = @ - 1]
    /\ pure.result.status = "Ok"
    /\ SubSeq(pure.result.point, 33, 64) = [Zero32 EXCEPT ![31] = 1]

\* A call under the fixture's key whose proof or public inputs differ from
\* the fixture in one bit has ended
TamperedDone ==
    /\ run.pc = "done"
    /\ run.vk = "fixture"
    /\ (run.proof # FixtureProof \/ run.public # FixturePublic)

AccumulatorOf(r, n) ==
    << [vk |-> r.vk, ic |-> 0, scalar |-> << >>] >> \o
       [k \in 1 .. n |-> [vk |-> r.vk, ic |-> k, scalar |-> r.public[k]]]

C24_ReceiptToProof ==
    pure.op = "receipt_to_proof"
    => IF Len(pure.seal) >= 256
       THEN /\ pure.result.status = "Ok"
            /\ negate_g1(SubSeq(pure.seal, 1, 64)).status = "Ok"
            /\ pure.result.proof.pi_a =
                  negate_g1(SubSeq(pure.seal, 1, 64)).point
            /\ pure.result.proof.pi_b = SubSeq(pure.seal, 65, 192)
            /\ pure.result.proof.pi_c = SubSeq(pure.seal, 193, 256)
       ELSE /\ pure.result.status = "Err"
            /\ pure.result.proof = << >>

\* The vector the call in pure would have returned for the claim digest d
VectorFor(d) ==
    IF pure.op = "public_inputs"
    THEN public_inputs(d, hex_encode(pure.root), hex_encode(pure.id)).inputs
    ELSE groth_16_public_inputs(d).inputs

\* C25: public_inputs is injective in the claim digest and in range: the
\* vector of another claim digest differs in c0 or c1, and each of a0, a1,
\* c0, c1 is below 2^128 (its sixteen leading bytes are zero) and passes
\* is_scalar_valid, so the range check rejects no claim digest.
C25_InjectiveAndInRange ==
    pure.op \in {"public_inputs", "groth_16_public_inputs"}
    => /\ pure.result = "Ok"
       /\ \A e \in 1 .. 4 :
             /\ \A k \in 1 .. 16 : pure.inputs[e][k] = 0
             /\ is_scalar_valid(pure.inputs[e])
       /\ \A d \in Digests \ {pure.claim_digest} :
             \/ VectorFor(d)[3] # pure.inputs[3]
             \/ VectorFor(d)[4] # pure.inputs[4]

\* public_inputs was applied to the digest of 32 bytes 0xff: c0 and c1 are
\* 2^128 - 1 and pass is_scalar_valid
C25_Witness ==
    /\ pure.op = "public_inputs"
    /\ pure.claim_digest = Max32
    /\ pure.inputs[3] = [k \in ByteIndex |-> IF k <= 16 THEN 0 ELSE 255]
    /\ pure.inputs[4] = pure.inputs[3]
    /\ is_scalar_valid(pure.inputs[3])

====
